---- MODULE Spec2Model ----
(***************************************************************************)
(* A model of the chicken-count detectors: the generic COCO-SSD detector   *)
(* (chicken-count.js) and the Teachable Machine classifier                 *)
(* (chicken-count-teachable.js and its twin with English labels).  One run *)
(* of main(), or one processMultipleImages() call made by a module user on *)
(* a detector whose loadModel() was never called, is one behaviour.  Every *)
(* action is one run-to-completion step of the JavaScript event loop: the  *)
(* code between two awaits.  Scores are integers in hundredths (0.5 = 50). *)
(***************************************************************************)
EXTENDS Integers, Sequences, FiniteSets

VARIABLES
    variant,       \* which program runs: "generic", "teachable" or "teachable-en"
    caller,        \* "main" (run as a script) or "module" (required, no loadModel)
    argKind,       \* process.argv[2]: "none", "missing", "file" or "dir"
    dirListing,    \* fs.readdirSync(imagePath) when argv[2] is a directory
    pc,            \* position of the top-level caller
    model,         \* this.model: "null" or "handle"
    imagePaths,    \* the paths handed to processImage / processMultipleImages
    batch,         \* TRUE once processMultipleImages has been called
    stage,         \* per path: position of its processImage pipeline
    ret,           \* per path: value the last settled promise of the pipeline carries
    tensors,       \* per path: tensors created for it and not yet disposed
    frame,         \* per path: what the running detectChickens call holds
    attempted,     \* paths processImage was called with, in call order
    results,       \* processMultipleImages: const results
    totalChickens, \* processMultipleImages: let totalChickens
    summary,       \* <<>> or the two numbers the batch summary printed
    console,       \* tags of the messages written so far
    mainResult     \* promise of the top-level call: "running", "resolved", "rejected"

vars == <<variant, caller, argKind, dirListing, pc, model, imagePaths, batch,
          stage, ret, tensors, frame, attempted, results, totalChickens, summary,
          console, mainResult>>

(***************************************************************************)
(* Bounds of the model.                                                    *)
(***************************************************************************)
MaxPaths == 3      \* entries of a directory listing / paths of a batch
MaxPreds == 2      \* detections or output units per image, in runs of every kind
MaxOutputs == 3    \* detections or output units per image, in single-image runs

(***************************************************************************)
(* Program constants.                                                      *)
(***************************************************************************)
BirdThreshold == 50       \* prediction.score > 0.5
ChickenThreshold == 70    \* bestPrediction.confidence > 0.7
ModelInputSize == 224     \* image.resize(224, 224)

\* The two programs with a Teachable Machine model differ in their labels only.
Teachables == {"teachable", "teachable-en"}

Variants == {"generic"} \cup Teachables

\* The two JavaScript values that stand for "nothing".
Null == [null |-> TRUE]
Pending == [pending |-> TRUE]

(***************************************************************************)
(* Directory entries and the extension filter of main().                   *)
(***************************************************************************)
\* What the directory can hold, in the order the operating system lists it
\* (not sorted by name): three images and one other file, so a batch has up
\* to three paths.  Names are compared nowhere in the programs.
DirCatalogue ==
    << [stem |-> "b", ext |-> "PNG"], [stem |-> "notes", ext |-> "txt"],
       [stem |-> "a", ext |-> "jpg"], [stem |-> "c", ext |-> "jpeg"] >>

\* String.prototype lower-casing as the /i flag applies it to the extensions used.
LowerCase(ext) ==
    CASE ext = "PNG" -> "png"
      [] ext = "JPG" -> "jpg"
      [] ext = "Jpeg" -> "jpeg"
      [] ext = "GIF" -> "gif"
      [] OTHER -> ext

\* Variant of IsImageFile without the i flag.
IsImageFileCaseSensitive(file) == file.ext \in {"jpg", "jpeg", "png", "bmp", "gif"}

\* /\.(jpe?g|png|bmp|gif)$/i.test(file)
IsImageFile(file) == LowerCase(file.ext) \in {"jpg", "jpeg", "png", "bmp", "gif"}

\* path.join(imagePath, file)
PathJoin(dir, file) == [dir |-> dir, stem |-> file.stem, ext |-> file.ext]

\* fs.readdirSync(imagePath).filter(...).map(...)
ImageFiles(listing) ==
    LET kept == SelectSeq(listing, IsImageFile)
    IN  [i \in 1..Len(kept) |-> PathJoin("dir", kept[i])]

SingleFile == [dir |-> ".", stem |-> "a", ext |-> "jpg"]

\* The entries of cat at the positions in S, in cat's order.
RECURSIVE Pick(_, _, _)
Pick(cat, S, pos) ==
    IF pos > Len(cat) THEN <<>>
    ELSE (IF pos \in S THEN <<cat[pos]>> ELSE <<>>) \o Pick(cat, S, pos + 1)

\* The directory listings considered: any at most n entries of the catalogue.
Listings(n) ==
    { Pick(DirCatalogue, S, 1) : S \in { T \in SUBSET (1..Len(DirCatalogue)) : Cardinality(T) <= n } }

\* A directory with every accepted extension, in mixed case, between files of
\* other kinds (ext is the text after the last dot of the name, "" without a dot).
WideCatalogue ==
    << [stem |-> "e", ext |-> "bmp"], [stem |-> "notes", ext |-> "txt"],
       [stem |-> "d", ext |-> "GIF"], [stem |-> "a", ext |-> "jpg"],
       [stem |-> "Makefile", ext |-> ""], [stem |-> "c", ext |-> "Jpeg"],
       [stem |-> "scan", ext |-> "jp2"], [stem |-> "b", ext |-> "PNG"] >>

\* The listings of that directory considered: any at most n of its entries.
WideListings(n) ==
    { Pick(WideCatalogue, S, 1) : S \in { T \in SUBSET (1..Len(WideCatalogue)) : Cardinality(T) <= n } }

(***************************************************************************)
(* Images as Jimp delivers them, and the locals of detectChickens          *)
(***************************************************************************)
NoSize == [width |-> 0, height |-> 0]

\* Sizes of the decoded image files: one that already has the size the
\* Teachable Machine model expects, and one that has not.
Sizes == { [width |-> ModelInputSize, height |-> ModelInputSize],
           [width |-> 640, height |-> 480] }

\* The size drawn where whole batches are explored.
BatchSizes == { [width |-> 640, height |-> 480] }

\* Jimp's image.resize(w, h) changes the bitmap of the image it is called on
\* and returns that same image: `resized` and `image` are one object.
JimpResize(bitmap, w, h) == [width |-> w, height |-> h]

\* A detectChickens call that holds nothing (not started, or already left):
\*   error           message of the Error detectChickens rejected with
\*   decoded         size of the image file as Jimp.read decoded it
\*   bitmap          image.bitmap of the Jimp image object, as it is now
\*   predictionData  the values predictions.data() delivered, when hasData
EmptyFrame ==
    [error |-> "", decoded |-> NoSize, bitmap |-> NoSize,
     hasData |-> FALSE, predictionData |-> <<>>]

SeqsUpTo(S, n) == UNION { [1..k -> S] : k \in 0..n }

(***************************************************************************)
(* Generic variant: what model.detect can return and how it is interpreted *)
(***************************************************************************)
\* Detections COCO-SSD may report: two clear birds, a bird exactly at the
\* threshold, and another class above the threshold.
Detections ==
    { [class |-> "bird", score |-> 87], [class |-> "bird", score |-> 76],
      [class |-> "bird", score |-> BirdThreshold], [class |-> "person", score |-> 65] }

\* The detections drawn where whole batches are explored.
BatchDetections == { [class |-> "bird", score |-> 87], [class |-> "person", score |-> 65] }

\* Variant of IsBird that keeps every class above the threshold.
IsAnyClass(prediction) == prediction.score > BirdThreshold

\* prediction.class === 'bird' && prediction.score > 0.5
IsBird(prediction) == prediction.class = "bird" /\ prediction.score > BirdThreshold

FilterBirds(predictions) == SelectSeq(predictions, IsBird)

\* size: the width and height read from image.bitmap before the tensor was built
GenericResult(predictions, size) ==
    LET birdPredictions == FilterBirds(predictions)
    IN  [ totalDetections |-> Len(predictions),
          birdDetections  |-> Len(birdPredictions),
          allPredictions  |-> predictions,
          birdPredictions |-> birdPredictions,
          imageSize       |-> size ]

(***************************************************************************)
(* Teachable variant: what predictions.data() can hold and its reading     *)
(***************************************************************************)
\* Values an output unit may take: below, exactly at and above the threshold.
Confidences == {15, ChickenThreshold, 85}

\* The values drawn where whole batches are explored.
BatchConfidences == {15, 85}

\* const classes = ['Kein Huhn', 'Huhn']   /   const classes = ['No Chicken', 'Chicken']
Classes == IF variant = "teachable" THEN <<"Kein Huhn", "Huhn">> ELSE <<"No Chicken", "Chicken">>

ClassName(k) == CASE k = 2 -> "Class 2" [] k = 3 -> "Class 3" [] OTHER -> "Class n"

\* Variant of ClassLabel that numbers the synthesized labels from 1.
ClassLabelFromOne(pos) == IF pos <= Len(Classes) THEN Classes[pos] ELSE ClassName(pos)

\* classes[i] || `Class ${i}` for the 0-based index i = pos - 1
ClassLabel(pos) == IF pos <= Len(Classes) THEN Classes[pos] ELSE ClassName(pos - 1)

\* the for loop that builds const results
LabelAll(predictionData) ==
    [pos \in 1..Len(predictionData) |->
        [class |-> ClassLabel(pos), confidence |-> predictionData[pos]]]

\* Variant of KeepBetter that replaces only on a strictly greater confidence.
KeepFirst(prev, current) == IF current.confidence > prev.confidence THEN current ELSE prev

\* the reducer: (prev, current) => (prev.confidence > current.confidence) ? prev : current
KeepBetter(prev, current) == IF prev.confidence > current.confidence THEN prev ELSE current

\* Array.prototype.reduce without an initial value, on a non-empty array
RECURSIVE ReduceFrom(_, _, _)
ReduceFrom(list, acc, pos) ==
    IF pos > Len(list) THEN acc
    ELSE ReduceFrom(list, KeepBetter(acc, list[pos]), pos + 1)

BestPrediction(list) == ReduceFrom(list, list[1], 2)

\* Variant of IsChicken that accepts a confidence equal to the threshold.
IsChickenAtLeast(bestPrediction) ==
    /\ bestPrediction.class = (IF variant = "teachable" THEN "Huhn" ELSE "Chicken")
    /\ bestPrediction.confidence >= ChickenThreshold

\* bestPrediction.class === 'Huhn' && bestPrediction.confidence > 0.7   ('Chicken' in the twin)
IsChicken(bestPrediction) ==
    /\ bestPrediction.class = (IF variant = "teachable" THEN "Huhn" ELSE "Chicken")
    /\ bestPrediction.confidence > ChickenThreshold

\* bitmap: image.bitmap at the time of the return statement
TeachableResult(predictionData, bitmap) ==
    LET labelled == LabelAll(predictionData)
        best == BestPrediction(labelled)
    IN  [ predictions    |-> labelled,
          bestPrediction |-> best,
          isChicken      |-> IsChicken(best),
          confidence     |-> best.confidence,
          imageSize      |-> [width |-> bitmap.width, height |-> bitmap.height] ]

(***************************************************************************)
(* Initial state: the detector has been constructed (model = null).  main  *)
(* has called loadModel(), which awaits the library's load; a module user  *)
(* has only constructed the detector.                                      *)
(***************************************************************************)
Init ==
    /\ variant \in Variants
    /\ caller \in {"main", "module"}
    /\ \/ caller = "main" /\ argKind \in {"none", "missing", "file"} /\ dirListing = <<>>
       \/ caller = "main" /\ argKind = "dir"
                         /\ dirListing \in Listings(MaxPaths)
       \/ caller = "module" /\ argKind = "none" /\ dirListing = <<>>
    /\ pc = IF caller = "main" THEN "loadModel" ELSE "constructed"
    /\ model = "null"
    /\ imagePaths = <<>>
    /\ batch = FALSE
    /\ stage = <<>>
    /\ ret = <<>>
    /\ tensors = <<>>
    /\ frame = <<>>
    /\ attempted = <<>>
    /\ results = <<>>
    /\ totalChickens = 0
    /\ summary = <<>>
    /\ console = <<>>
    /\ mainResult = "running"

Log(tag) == console' = Append(console, tag)

(***************************************************************************)
(* loadModel                                                               *)
(***************************************************************************)
\* this.model = await load() succeeded
LoadModelResolve ==
    /\ pc = "loadModel"
    /\ model' = "handle"
    /\ Log("Model loaded successfully!")
    /\ pc' = "loaded"
    /\ UNCHANGED <<variant, caller, argKind, dirListing, imagePaths, batch, stage, ret,
                   tensors, frame, attempted, results, totalChickens, summary, mainResult>>

\* Variant of LoadModelReject whose catch block does not rethrow.
LoadModelSwallow ==
    /\ pc = "loadModel"
    /\ Log("Failed to load model")
    /\ pc' = "loaded"
    /\ UNCHANGED <<variant, caller, argKind, dirListing, model, imagePaths, batch, stage,
                   ret, tensors, frame, attempted, results, totalChickens, summary, mainResult>>

\* the load rejected: catch (error) { console.error(...); throw error; }
LoadModelReject ==
    /\ pc = "loadModel"
    /\ Log("Failed to load model")
    /\ pc' = "threw"
    /\ UNCHANGED <<variant, caller, argKind, dirListing, model, imagePaths, batch, stage,
                   ret, tensors, frame, attempted, results, totalChickens, summary, mainResult>>

\* main: } catch (error) { console.error('Error:', error.message); }
MainCatch ==
    /\ caller = "main"
    /\ pc = "threw"
    /\ Log("Error:")
    /\ pc' = "done"
    /\ mainResult' = "resolved"
    /\ UNCHANGED <<variant, caller, argKind, dirListing, model, imagePaths, batch, stage,
                   ret, tensors, frame, attempted, results, totalChickens, summary>>

(***************************************************************************)
(* detectChickens up to its first await, as processImage calls it          *)
(***************************************************************************)
\* if (!this.model) throw ...; if (!fs.existsSync(imagePath)) throw ...; await Jimp.read
DetectStart(mdl, exists) ==
    IF mdl = "null" THEN "threw"
    ELSE IF ~exists THEN "threw"
    ELSE "reading"

\* Variant of DetectError that looks for the file before it looks at this.model.
DetectErrorFileFirst(mdl, exists) ==
    IF ~exists THEN "Image file not found"
    ELSE IF mdl = "null" THEN "Model not loaded. Call loadModel() first."
    ELSE ""

\* the message of the Error those two checks throw, "" when neither throws
DetectError(mdl, exists) ==
    IF mdl = "null" THEN "Model not loaded. Call loadModel() first."
    ELSE IF ~exists THEN "Image file not found"
    ELSE ""

\* what the detectChickens call holds when it reaches its first await or throws
DetectFrame(mdl, exists) == [EmptyFrame EXCEPT !.error = DetectError(mdl, exists)]

(***************************************************************************)
(* processMultipleImages                                                   *)
(***************************************************************************)
\* Variant of PushResult without the if (result) guard.
PushAlways(list, imagePath, result) ==
    Append(list, [imagePath |-> imagePath, result |-> result])

\* Variant of PushResult that uses unshift instead of push.
PushFront(list, imagePath, result) ==
    IF result # Null THEN <<[imagePath |-> imagePath, result |-> result]>> \o list
    ELSE list

\* if (result) { results.push({ imagePath, result }); ... }
PushResult(list, imagePath, result) ==
    IF result # Null THEN Append(list, [imagePath |-> imagePath, result |-> result])
    ELSE list

\* Variant of AddChickens that counts positive images in both programs.
AddPositive(total, result) ==
    IF result = Null THEN total
    ELSE IF variant = "generic"
         THEN (IF result.birdDetections > 0 THEN total + 1 ELSE total)
    ELSE IF result.isChicken THEN total + 1
    ELSE total

\* Variant of AddChickens that counts every result of the teachable programs.
AddEveryResult(total, result) ==
    IF result = Null THEN total
    ELSE IF variant = "generic" THEN total + result.birdDetections
    ELSE total + 1

\* totalChickens += result.birdDetections   /   if (result.isChicken) totalChickens++
AddChickens(total, result) ==
    IF result = Null THEN total
    ELSE IF variant = "generic" THEN total + result.birdDetections
    ELSE IF result.isChicken THEN total + 1
    ELSE total

\* The call itself: the declarations, the first log line and the loop up to the
\* first await (or, for an empty list, straight through the summary).
BeginBatch(paths, exists) ==
    /\ imagePaths' = paths
    /\ batch' = TRUE
    /\ results' = <<>>
    /\ totalChickens' = 0
    /\ ret' = [i \in 1..Len(paths) |-> Pending]
    /\ tensors' = [i \in 1..Len(paths) |-> 0]
    /\ frame' = [i \in 1..Len(paths) |->
                    IF i = 1 THEN DetectFrame(model, exists) ELSE EmptyFrame]
    /\ IF Len(paths) = 0
       THEN /\ stage' = <<>>
            /\ attempted' = <<>>
            /\ summary' = <<0, 0>>
            /\ console' = console \o <<"Processing images", "BATCH SUMMARY">>
            /\ pc' = "batchReturned"
       ELSE /\ stage' = [i \in 1..Len(paths) |->
                            IF i = 1 THEN DetectStart(model, exists) ELSE "pending"]
            /\ attempted' = <<paths[1]>>
            /\ summary' = <<>>
            /\ Log("Processing images")
            /\ pc' = "batch"

(***************************************************************************)
(* main after await detector.loadModel()                                   *)
(***************************************************************************)
MainEnd(tag) ==
    /\ Log(tag)
    /\ pc' = "done"
    /\ mainResult' = "resolved"
    /\ UNCHANGED <<variant, caller, argKind, dirListing, model, imagePaths, batch, stage,
                   ret, tensors, frame, attempted, results, totalChickens, summary>>

\* if (!imagePath) { console.log('Usage: ...'); return; }
MainUsage == pc = "loaded" /\ argKind = "none" /\ MainEnd("Usage")

\* fs.lstatSync threw: console.error(`Error accessing path: ...`); return;
MainAccessError == pc = "loaded" /\ argKind = "missing" /\ MainEnd("Error accessing path")

\* if (files.length === 0) { console.log('No image files found ...'); return; }
MainNoImages ==
    /\ pc = "loaded" /\ argKind = "dir"
    /\ Len(ImageFiles(dirListing)) = 0
    /\ MainEnd("No image files found in the directory.")

\* await detector.processMultipleImages(files)
MainBatch ==
    /\ pc = "loaded" /\ argKind = "dir"
    /\ Len(ImageFiles(dirListing)) # 0
    /\ \E exists \in BOOLEAN : BeginBatch(ImageFiles(dirListing), exists)
    /\ UNCHANGED <<variant, caller, argKind, dirListing, model, mainResult>>

\* const results = await detector.processImage(imagePath)
MainSingle ==
    /\ pc = "loaded" /\ argKind = "file"
    /\ imagePaths' = <<SingleFile>>
    /\ \E exists \in BOOLEAN :
          /\ stage' = <<DetectStart(model, exists)>>
          /\ frame' = <<DetectFrame(model, exists)>>
    /\ ret' = <<Pending>>
    /\ tensors' = <<0>>
    /\ attempted' = <<SingleFile>>
    /\ pc' = "single"
    /\ UNCHANGED <<variant, caller, argKind, dirListing, model, batch, results,
                   totalChickens, summary, console, mainResult>>

\* a module user calls processMultipleImages on a detector it never loaded
ModuleBatch ==
    /\ pc = "constructed"
    /\ \E listing \in Listings(MaxPaths), exists \in BOOLEAN :
          BeginBatch([i \in 1..Len(listing) |-> PathJoin("dir", listing[i])], exists)
    /\ UNCHANGED <<variant, caller, argKind, dirListing, model, mainResult>>

(***************************************************************************)
(* detectChickens, one action per resumption                               *)
(***************************************************************************)
\* Variant of PipelineFrame in which detectChickens clears this.model.
PipelineFrameDropsModel ==
    /\ model' = "null"
    /\ UNCHANGED <<variant, caller, argKind, dirListing, pc, imagePaths, batch,
                   attempted, results, totalChickens, summary, mainResult>>

\* what detectChickens never assigns
PipelineFrame ==
    UNCHANGED <<variant, caller, argKind, dirListing, pc, model, imagePaths, batch,
                attempted, results, totalChickens, summary, mainResult>>

\* Jimp.read rejected (unreadable or corrupt image)
JimpReadReject(i) ==
    /\ stage[i] = "reading"
    /\ stage' = [stage EXCEPT ![i] = "threw"]
    /\ frame' = [frame EXCEPT ![i].error = "Could not read image"]
    /\ UNCHANGED <<ret, tensors, console>>
    /\ PipelineFrame

\* generic: Jimp.read resolved; tf.tensor3d(...); this.model.detect(tensor) is awaited
GenericReadResolve(i, size) ==
    /\ variant = "generic"
    /\ stage[i] = "reading"
    /\ frame' = [frame EXCEPT ![i].decoded = size, ![i].bitmap = size]
    /\ tensors' = [tensors EXCEPT ![i] = @ + 1]
    /\ stage' = [stage EXCEPT ![i] = "inferring"]
    /\ UNCHANGED <<ret, console>>
    /\ PipelineFrame

\* generic: detect resolved; filter; tensor.dispose(); return {...}
DetectResolve(i, predictions) ==
    /\ variant = "generic"
    /\ stage[i] = "inferring"
    /\ tensors' = [tensors EXCEPT ![i] = @ - 1]
    /\ ret' = [ret EXCEPT ![i] = GenericResult(predictions, frame[i].bitmap)]
    /\ stage' = [stage EXCEPT ![i] = "detected"]
    /\ UNCHANGED <<frame, console>>
    /\ PipelineFrame

\* generic: detect rejected; the statements after the await never run
DetectReject(i) ==
    /\ variant = "generic"
    /\ stage[i] = "inferring"
    /\ stage' = [stage EXCEPT ![i] = "threw"]
    /\ frame' = [frame EXCEPT ![i].error = "detect failed"]
    /\ UNCHANGED <<ret, tensors, console>>
    /\ PipelineFrame

\* teachable: Jimp.read resolved; resize; tf.tensor4d(...); this.model.predict(tensor)
\* returns the prediction tensor (or throws), and its value is awaited
TeachableReadResolve(i, size, predictThrows) ==
    /\ variant \in Teachables
    /\ stage[i] = "reading"
    /\ frame' = [frame EXCEPT ![i].decoded = size,
                              ![i].bitmap = JimpResize(size, ModelInputSize, ModelInputSize),
                              ![i].error = IF predictThrows THEN "predict failed" ELSE ""]
    /\ tensors' = [tensors EXCEPT ![i] = IF predictThrows THEN @ + 1 ELSE @ + 2]
    /\ stage' = [stage EXCEPT ![i] = IF predictThrows THEN "threw" ELSE "inferring"]
    /\ UNCHANGED <<ret, console>>
    /\ PipelineFrame

\* teachable: resumed after await predict; predictions.data() is called and awaited
PredictContinue(i) ==
    /\ variant \in Teachables
    /\ stage[i] = "inferring"
    /\ stage' = [stage EXCEPT ![i] = "data"]
    /\ UNCHANGED <<ret, tensors, frame, console>>
    /\ PipelineFrame

\* teachable: data() resolved; both tensors disposed; labels, reduce, return {...}.
\* reduce of an empty array with no initial value throws a TypeError.
DataResolve(i, predictionData) ==
    /\ variant \in Teachables
    /\ stage[i] = "data"
    /\ tensors' = [tensors EXCEPT ![i] = @ - 2]
    /\ IF Len(predictionData) = 0
       THEN /\ stage' = [stage EXCEPT ![i] = "threw"]
            /\ frame' = [frame EXCEPT ![i].hasData = TRUE,
                                      ![i].predictionData = predictionData,
                                      ![i].error = "Reduce of empty array with no initial value"]
            /\ UNCHANGED ret
       ELSE /\ stage' = [stage EXCEPT ![i] = "detected"]
            /\ frame' = [frame EXCEPT ![i].hasData = TRUE,
                                      ![i].predictionData = predictionData]
            /\ ret' = [ret EXCEPT ![i] = TeachableResult(predictionData, frame[i].bitmap)]
    /\ UNCHANGED console
    /\ PipelineFrame

\* teachable: data() rejected; the dispose calls after the await never run
DataReject(i) ==
    /\ variant \in Teachables
    /\ stage[i] = "data"
    /\ stage' = [stage EXCEPT ![i] = "threw"]
    /\ frame' = [frame EXCEPT ![i].error = "data failed"]
    /\ UNCHANGED <<ret, tensors, console>>
    /\ PipelineFrame

(***************************************************************************)
(* processImage after await this.detectChickens(imagePath)                 *)
(***************************************************************************)
\* catch (error) { console.error(`Error processing image: ...`); return null; }
Caught(i) ==
    /\ Log("Error processing image")
    /\ ret' = [ret EXCEPT ![i] = Null]
    /\ stage' = [stage EXCEPT ![i] = "returned"]
    /\ frame' = [frame EXCEPT ![i] = EmptyFrame]
    /\ UNCHANGED <<tensors, pc>>

\* detectChickens resolved: this.displayResults(results, imagePath); return results;
\* an exception thrown while printing lands in the same catch
ProcessImageDisplay(i, displayThrows) ==
    /\ stage[i] = "detected"
    /\ IF displayThrows
       THEN Caught(i)
       ELSE /\ Log("RESULTS")
            /\ stage' = [stage EXCEPT ![i] = "returned"]
            /\ frame' = [frame EXCEPT ![i] = EmptyFrame]
            /\ UNCHANGED <<ret, tensors, pc>>
    /\ UNCHANGED <<variant, caller, argKind, dirListing, model, imagePaths, batch,
                   attempted, results, totalChickens, summary, mainResult>>

\* Variant of ProcessImageCatch without the try/catch: the rejection reaches the caller.
ProcessImageRethrow(i) ==
    /\ stage[i] = "threw"
    /\ stage' = [stage EXCEPT ![i] = "rejected"]
    /\ pc' = "threw"
    /\ UNCHANGED <<variant, caller, argKind, dirListing, model, imagePaths, batch, ret,
                   tensors, frame, attempted, results, totalChickens, summary, console,
                   mainResult>>

\* detectChickens rejected
ProcessImageCatch(i) ==
    /\ stage[i] = "threw"
    /\ Caught(i)
    /\ UNCHANGED <<variant, caller, argKind, dirListing, model, imagePaths, batch,
                   attempted, results, totalChickens, summary, mainResult>>

(***************************************************************************)
(* the callers after await this.processImage(imagePath)                    *)
(***************************************************************************)
\* the rest of one loop iteration, then either the next iteration up to its
\* await or the batch summary and return results
LoopContinue(i) ==
    /\ pc = "batch"
    /\ stage[i] = "returned"
    /\ results' = PushResult(results, imagePaths[i], ret[i])
    /\ totalChickens' = AddChickens(totalChickens, ret[i])
    /\ IF i < Len(imagePaths)
       THEN /\ \E exists \in BOOLEAN :
                  /\ stage' = [stage EXCEPT ![i] = "consumed",
                                            ![i + 1] = DetectStart(model, exists)]
                  /\ frame' = [frame EXCEPT ![i + 1] = DetectFrame(model, exists)]
            /\ attempted' = Append(attempted, imagePaths[i + 1])
            /\ UNCHANGED <<pc, summary, console>>
       ELSE /\ stage' = [stage EXCEPT ![i] = "consumed"]
            /\ summary' = <<Len(results'), totalChickens'>>
            /\ Log("BATCH SUMMARY")
            /\ pc' = "batchReturned"
            /\ UNCHANGED <<attempted, frame>>
    /\ UNCHANGED <<variant, caller, argKind, dirListing, model, imagePaths, batch, ret,
                   tensors, mainResult>>

\* the caller resumes after await processMultipleImages(...) and returns
BatchReturn ==
    /\ pc = "batchReturned"
    /\ pc' = "done"
    /\ mainResult' = "resolved"
    /\ UNCHANGED <<variant, caller, argKind, dirListing, model, imagePaths, batch, stage,
                   ret, tensors, frame, attempted, results, totalChickens, summary, console>>

\* main, single image: if (results && positive) log(found) else if (results) log(none)
SingleContinue ==
    /\ pc = "single"
    /\ stage[1] = "returned"
    /\ stage' = [stage EXCEPT ![1] = "consumed"]
    /\ console' =
          IF ret[1] = Null THEN console
          ELSE IF variant = "generic"
               THEN Append(console, IF ret[1].birdDetections > 0
                                    THEN "Found chicken(s)" ELSE "No chickens detected")
               ELSE Append(console, IF ret[1].isChicken
                                    THEN "Found chicken(s)" ELSE "No chickens detected")
    /\ pc' = "done"
    /\ mainResult' = "resolved"
    /\ UNCHANGED <<variant, caller, argKind, dirListing, model, imagePaths, batch, ret,
                   tensors, frame, attempted, results, totalChickens, summary>>

Indices == 1..Len(imagePaths)

\* The resumptions of one image's pipeline, the model answering with at most n
\* of the given detections or confidences.
Pipeline(detections, confidences, sizes, n) ==
    \/ \E i \in Indices : JimpReadReject(i)
    \/ \E i \in Indices, size \in sizes : GenericReadResolve(i, size)
    \/ \E i \in Indices, predictions \in SeqsUpTo(detections, n) :
          DetectResolve(i, predictions)
    \/ \E i \in Indices : DetectReject(i)
    \/ \E i \in Indices, size \in sizes, predictThrows \in BOOLEAN :
          TeachableReadResolve(i, size, predictThrows)
    \/ \E i \in Indices : PredictContinue(i)
    \/ \E i \in Indices, predictionData \in SeqsUpTo(confidences, n) :
          DataResolve(i, predictionData)
    \/ \E i \in Indices : DataReject(i)
    \/ \E i \in Indices, displayThrows \in BOOLEAN : ProcessImageDisplay(i, displayThrows)
    \/ \E i \in Indices : ProcessImageCatch(i)

Next ==
    \/ LoadModelResolve
    \/ LoadModelReject
    \/ MainCatch
    \/ MainUsage
    \/ MainAccessError
    \/ MainNoImages
    \/ MainBatch
    \/ MainSingle
    \/ ModuleBatch
    \/ Pipeline(BatchDetections, BatchConfidences, BatchSizes, MaxPreds)
    \/ \E i \in Indices : LoopContinue(i)
    \/ BatchReturn
    \/ SingleContinue

Spec == Init /\ [][Next]_vars

\* The event loop runs every callback that is ready, and the promises of the
\* libraries (model load, image decode, inference) settle.
FairSpec == Spec /\ WF_vars(Next)

(***************************************************************************)
(* Runs of main on a single image file, with the full range of model       *)
(* answers: the specification under which detectChickens is examined.      *)
(***************************************************************************)
ImageInit == Init /\ caller = "main" /\ argKind = "file"

ImageNext ==
    \/ LoadModelResolve
    \/ LoadModelReject
    \/ MainCatch
    \/ MainSingle
    \/ Pipeline(Detections, Confidences, Sizes, MaxOutputs)
    \/ SingleContinue

ImageSpec == ImageInit /\ [][ImageNext]_vars

(***************************************************************************)
(* Runs of main on a directory, with the full range of directory entries   *)
(* and one model answer per length: the specification under which the      *)
(* extension filter is examined.                                           *)
(***************************************************************************)
DirDetections == { d \in BatchDetections : d.class = "bird" }

DirConfidences == { 85 }

DirInit ==
    /\ variant \in Variants
    /\ caller = "main"
    /\ argKind = "dir"
    /\ dirListing \in WideListings(MaxPaths)
    /\ pc = "loadModel"
    /\ model = "null"
    /\ imagePaths = <<>>
    /\ batch = FALSE
    /\ stage = <<>>
    /\ ret = <<>>
    /\ tensors = <<>>
    /\ frame = <<>>
    /\ attempted = <<>>
    /\ results = <<>>
    /\ totalChickens = 0
    /\ summary = <<>>
    /\ console = <<>>
    /\ mainResult = "running"

DirNext ==
    \/ LoadModelResolve
    \/ LoadModelReject
    \/ MainCatch
    \/ MainNoImages
    \/ MainBatch
    \/ Pipeline(DirDetections, DirConfidences, BatchSizes, MaxPreds)
    \/ \E i \in Indices : LoopContinue(i)
    \/ BatchReturn

DirSpec == DirInit /\ [][DirNext]_vars

(***************************************************************************)
(* Definitions shared by the properties                                    *)
(***************************************************************************)
IsResult(v) == v # Null /\ v # Pending

\* processImage(imagePaths[i]) has returned
Returned(i) == stage[i] \in {"returned", "consumed"}

\* the pipeline of path i has been started and processImage has not returned yet
InProgress(i) == stage[i] \in {"reading", "inferring", "data", "detected", "threw"}

\* the top-level call is over
Finished == pc = "done"

\* the batch loop has handled the value processImage returned for path i
Succeeded == { i \in Indices : stage[i] = "consumed" /\ ret[i] # Null }

PositionOf(path) == CHOOSE i \in Indices : imagePaths[i] = path

Occurrences(list, tag) == Cardinality({ k \in 1..Len(list) : list[k] = tag })

(***************************************************************************)
(* C1 - the list the batch returns                                         *)
(***************************************************************************)
\* C1 as stated: when processMultipleImages has returned, its list has one
\* entry per input path, a failed path being paired with null, so its length
\* equals the number of input paths.
C1_OneEntryPerPath ==
    (batch /\ summary # <<>>) =>
        /\ Len(results) = Len(imagePaths)
        /\ \A i \in Indices : results[i] = [imagePath |-> imagePaths[i], result |-> ret[i]]

\* C1 as amended: the list holds exactly one entry per path whose processImage
\* returned a result, none for a path whose processImage returned null and no
\* entry with a null result; its length is the number of successful paths.
C1_EntriesAreSuccesses ==
    batch =>
        /\ Len(results) = Cardinality(Succeeded)
        /\ \A k \in 1..Len(results) : results[k].result # Null
        /\ \A i \in Succeeded :
              Cardinality({ k \in 1..Len(results) :
                              results[k] = [imagePath |-> imagePaths[i], result |-> ret[i]] }) = 1
        /\ \A i \in Indices : (stage[i] = "consumed" /\ ret[i] = Null) =>
              \A k \in 1..Len(results) : results[k].imagePath # imagePaths[i]

\* a finished batch of three paths, one of which failed and two of which succeeded
C1_Witness ==
    /\ batch /\ Finished /\ Len(imagePaths) = 3
    /\ Len(results) = 2
    /\ \E i \in Indices : ret[i] = Null

(***************************************************************************)
(* C2 - order of the list                                                  *)
(***************************************************************************)
\* C2: the entries of the list appear in the relative order of their paths in
\* the input list, whatever paths failed.
C2_InputOrder ==
    batch =>
        \A j, k \in 1..Len(results) :
            j < k => PositionOf(results[j].imagePath) < PositionOf(results[k].imagePath)

\* a finished batch whose first and third path succeeded and whose second failed
C2_Witness ==
    /\ batch /\ Finished /\ Len(imagePaths) = 3
    /\ ret[2] = Null
    /\ Len(results) = 2
    /\ results[1].imagePath = imagePaths[1] /\ results[2].imagePath = imagePaths[3]

(***************************************************************************)
(* C3 - a failing path never aborts the batch                              *)
(***************************************************************************)
C3_Safety ==
    \* processImage is called with the input paths, in input order, each once
    /\ Len(attempted) <= Len(imagePaths)
    /\ \A k \in 1..Len(attempted) : attempted[k] = imagePaths[k]
    \* every failure has become a null result and one logged message
    /\ \A i \in Indices : stage[i] # "rejected"
    /\ Occurrences(console, "Error processing image")
          = Cardinality({ i \in Indices : Returned(i) /\ ret[i] = Null })
    \* the batch ends only through its summary, after every path was attempted
    /\ (batch /\ Finished) =>
          /\ summary # <<>>
          /\ attempted = imagePaths
          /\ \A i \in Indices : stage[i] = "consumed"
          /\ mainResult = "resolved"

\* C3: a failure while processing one path becomes a null result plus a logged
\* message; the batch attempts every path exactly once, in input order, and
\* always reaches its summary.
C3_NeverAborts == []C3_Safety /\ (batch ~> (summary # <<>>))

\* a batch that reached its summary although its first path failed in detection
\* and a later path failed while its results were displayed
C3_Witness ==
    /\ batch /\ summary # <<>> /\ Len(imagePaths) = 3
    /\ ret[1] = Null /\ ret[2] = Null /\ ret[3] # Null
    /\ Occurrences(console, "RESULTS") = 1
    /\ Occurrences(console, "Error processing image") = 2

(***************************************************************************)
(* C4 - the batch total of the generic program                             *)
(***************************************************************************)
PositiveImages == { k \in 1..Len(results) : results[k].result.birdDetections > 0 }

RECURSIVE SumBirdDetections(_)
SumBirdDetections(list) ==
    IF list = <<>> THEN 0
    ELSE Head(list).result.birdDetections + SumBirdDetections(Tail(list))

\* C4 as stated: the total the generic batch reports is the number of images
\* with a non-null result whose filtered count is greater than 0.
C4_CountsPositiveImages ==
    (variant = "generic" /\ batch) =>
        /\ totalChickens = Cardinality(PositiveImages)
        /\ summary # <<>> => summary[2] = Cardinality(PositiveImages)

\* C4 as amended: the total the generic batch reports is the sum of the
\* filtered counts (birdDetections) of the non-null results, so an image with
\* several bird detections contributes each of them.
C4_SumsBirdDetections ==
    (variant = "generic" /\ batch) =>
        /\ totalChickens = SumBirdDetections(results)
        /\ summary # <<>> => summary = <<Len(results), SumBirdDetections(results)>>

\* a generic batch summary over an image with two bird detections and a failed image
C4_Witness ==
    /\ variant = "generic" /\ batch /\ summary # <<>>
    /\ \E k \in 1..Len(results) : results[k].result.birdDetections = 2
    /\ \E i \in Indices : ret[i] = Null
    /\ summary[2] > Cardinality(PositiveImages)

(***************************************************************************)
(* C5 - ties between predictions                                           *)
(***************************************************************************)
\* results detectChickens of the teachable program has returned
TeachableResults ==
    IF variant \in Teachables
    THEN { ret[i] : i \in { j \in Indices : IsResult(ret[j]) } }
    ELSE {}

MaxConfidence(list) ==
    CHOOSE c \in { list[k].confidence : k \in 1..Len(list) } :
        \A k \in 1..Len(list) : list[k].confidence <= c

\* positions of the predictions that share the maximum confidence
Maximal(list) == { k \in 1..Len(list) : list[k].confidence = MaxConfidence(list) }

Lowest(S) == CHOOSE k \in S : \A m \in S : k <= m
Highest(S) == CHOOSE k \in S : \A m \in S : m <= k

\* C5 as stated: among the predictions that share the maximum confidence the
\* best prediction is the one with the lowest index.
C5_FirstOccurrence ==
    \A r \in TeachableResults :
        r.bestPrediction = r.predictions[Lowest(Maximal(r.predictions))]

\* C5 as amended: among the predictions that share the maximum confidence the
\* best prediction is the one with the highest index (the last occurrence).
C5_LastOccurrence ==
    \A r \in TeachableResults :
        r.bestPrediction = r.predictions[Highest(Maximal(r.predictions))]

\* a result whose two predictions tie at the maximum confidence
C5_Witness ==
    \E r \in TeachableResults :
        /\ Cardinality(Maximal(r.predictions)) >= 2
        /\ r.bestPrediction = r.predictions[2]

(***************************************************************************)
(* C6 - the decision of the teachable program                              *)
(***************************************************************************)
\* C6: a true decision implies that the best prediction carries the label
\* configured for the positive class with a confidence strictly above 0.7; a
\* best prediction with that label and a confidence of 0.7 or lower gives false.
C6_Decision ==
    \A r \in TeachableResults :
        /\ r.isChicken =>
              /\ r.bestPrediction.class = Classes[2]
              /\ r.bestPrediction.confidence > ChickenThreshold
              /\ r.confidence > ChickenThreshold
        /\ (r.bestPrediction.class = Classes[2]
                /\ r.bestPrediction.confidence <= ChickenThreshold) => ~r.isChicken

\* a true decision taken over three output units
C6_Witness ==
    \E r \in TeachableResults :
        /\ r.isChicken
        /\ Len(r.predictions) = 3
        /\ r.bestPrediction = r.predictions[2]

(***************************************************************************)
(* C7 - the filter of the generic program                                  *)
(***************************************************************************)
GenericResults ==
    IF variant = "generic"
    THEN { ret[i] : i \in { j \in Indices : IsResult(ret[j]) } }
    ELSE {}

\* positions of the bird predictions with a score strictly above 0.5
BirdPositions(list) ==
    { k \in 1..Len(list) : list[k].class = "bird" /\ list[k].score > BirdThreshold }

\* the n-th smallest member of S
Nth(S, n) == CHOOSE k \in S : Cardinality({ m \in S : m < k }) = n - 1

\* C7: the filtered list is exactly the subsequence of the bird predictions
\* scoring above 0.5, in the original order; filteredCount <= totalCount, and
\* totalCount is the length of the unfiltered list.
C7_StableFilter ==
    \A r \in GenericResults :
        /\ Len(r.birdPredictions) = Cardinality(BirdPositions(r.allPredictions))
        /\ \A n \in 1..Len(r.birdPredictions) :
              r.birdPredictions[n] = r.allPredictions[Nth(BirdPositions(r.allPredictions), n)]
        /\ r.birdDetections = Len(r.birdPredictions)
        /\ r.totalDetections = Len(r.allPredictions)
        /\ r.birdDetections <= r.totalDetections

\* a result in which the filter kept two different birds, in their order, and
\* dropped the bird exactly at the threshold that stood between them
C7_Witness ==
    \E r \in GenericResults :
        /\ r.totalDetections = 3 /\ r.birdDetections = 2
        /\ r.allPredictions[2] = [class |-> "bird", score |-> BirdThreshold]
        /\ r.birdPredictions = <<r.allPredictions[1], r.allPredictions[3]>>
        /\ r.allPredictions[1] # r.allPredictions[3]

(***************************************************************************)
(* C8 - tensors are disposed                                               *)
(***************************************************************************)
\* C8: once processImage has returned for a path, no tensor created for that
\* path is left undisposed, whether inference succeeded or threw.
C8_TensorsDisposed == \A i \in Indices : Returned(i) => tensors[i] = 0

(***************************************************************************)
(* C9 - one image at a time                                                *)
(***************************************************************************)
\* the part of C9 about the order of the work: at most one pipeline is in
\* progress, and path i + 1 is not started before path i has returned
C9_Sequential ==
    /\ Cardinality({ i \in Indices : InProgress(i) }) <= 1
    /\ \A i \in Indices : (i > 1 /\ stage[i] # "pending") => stage[i - 1] = "consumed"

\* C9: at most one image's pipeline is in progress at any moment, path i + 1
\* starts only after path i has returned, and at most one image's tensor is
\* live at a time.
C9_OneImageAtATime ==
    /\ C9_Sequential
    /\ Cardinality({ i \in Indices : tensors[i] > 0 }) <= 1

(***************************************************************************)
(* C10 - a model that cannot be loaded                                     *)
(***************************************************************************)
LoadFailed == Occurrences(console, "Failed to load model") > 0

\* C10 as stated: when loadModel fails the error leaves main uncaught (main's
\* promise is rejected), and no image is loaded, inferred or reported.
C10_Uncaught ==
    LoadFailed =>
        /\ attempted = <<>> /\ batch = FALSE
        /\ Finished => mainResult = "rejected"

\* C10 as amended: when loadModel fails, loadModel rethrows the error to main,
\* whose own catch block logs it; main then returns normally (its promise is
\* resolved, never rejected), and no image is loaded, inferred or reported.
C10_CaughtByMain ==
    /\ mainResult # "rejected"
    /\ LoadFailed =>
          /\ model = "null"
          /\ attempted = <<>> /\ imagePaths = <<>> /\ batch = FALSE
          /\ results = <<>> /\ summary = <<>>
          /\ Occurrences(console, "RESULTS") = 0
          /\ pc \in {"threw", "done"}
          /\ Finished => (mainResult = "resolved" /\ console[Len(console)] = "Error:")

\* main has ended after a failed model load
C10_Witness == LoadFailed /\ Finished /\ caller = "main" /\ argKind = "dir" /\ dirListing # <<>>

(***************************************************************************)
(* C11 - no input path                                                     *)
(***************************************************************************)
\* C11: a run of main without an input path prints the usage text and returns
\* without error and without processing any image, also when the model
\* cannot be loaded.
C11_UsageWithoutPath ==
    (caller = "main" /\ argKind = "none") =>
        /\ attempted = <<>> /\ batch = FALSE
        /\ mainResult # "rejected"
        /\ Finished => (Occurrences(console, "Usage") = 1 /\ mainResult = "resolved")

(***************************************************************************)
(* C12 - the image size of a teachable result                              *)
(***************************************************************************)
InputSize == [width |-> ModelInputSize, height |-> ModelInputSize]

\* C12: in the binary variant the imageSize of the result is the width and
\* height of the image as decoded from the file, before the resize to 224x224;
\* for a source image that is not 224x224 it differs from 224x224.
C12_OriginalSize ==
    \A i \in Indices :
        (variant \in Teachables /\ stage[i] = "detected") =>
            /\ ret[i].imageSize = frame[i].decoded
            /\ frame[i].decoded # InputSize => ret[i].imageSize # InputSize

(***************************************************************************)
(* C13 - the batch report of the teachable programs                        *)
(***************************************************************************)
NonNull == { i \in Indices : Returned(i) /\ ret[i] # Null }

\* C13: in the teachable programs 'total images processed' is the number of
\* paths whose result is non-null and the reported positive total is the
\* number of those results whose isChicken is true; failed paths count in neither.
C13_BatchReport ==
    (variant \in Teachables /\ batch /\ summary # <<>>) =>
        /\ summary[1] = Cardinality(NonNull)
        /\ summary[2] = Cardinality({ i \in NonNull : ret[i].isChicken })
        /\ summary[1] = Len(results)
        /\ summary[2] = totalChickens

\* a report over a failed path, a chicken and an image that is no chicken
C13_Witness ==
    /\ variant \in Teachables /\ batch /\ Len(imagePaths) = 3
    /\ summary = <<2, 1>>
    /\ \E i \in Indices : ret[i] = Null

(***************************************************************************)
(* C15 - the model handle                                                  *)
(***************************************************************************)
ModelLoads == Occurrences(console, "Model loaded successfully!")

C15_Loaded ==
    /\ ModelLoads <= 1
    /\ model = "handle" <=> ModelLoads = 1
    \* in a run of main no image is touched before the model is there
    /\ (caller = "main" /\ attempted # <<>>) => model = "handle"
    \* every inference runs on the loaded handle
    /\ \A i \in Indices : stage[i] \in {"reading", "inferring", "data", "detected"} =>
          model = "handle"

\* C15: within one run the model is loaded exactly once, before any image is
\* processed, and no later step changes the detector's model handle.
C15_ModelLoadedOnce ==
    /\ []C15_Loaded
    /\ [][model = "handle" => model' = "handle"]_vars
    /\ [][model' # model => (pc = "loadModel" /\ attempted = <<>>)]_vars

\* a finished run of main over three images, all inferred, with the handle in place
C15_Witness ==
    /\ caller = "main" /\ Finished /\ Len(attempted) = 3
    /\ model = "handle" /\ ModelLoads = 1
    /\ Len(results) = 3

(***************************************************************************)
(* C16 - detection on a detector that was never loaded                     *)
(***************************************************************************)
\* C16: while the model handle is null, detectChickens fails with the 'model
\* not loaded' error whether or not the file exists, before any decoding,
\* tensor or inference; processImage returns null for every path and
\* processMultipleImages returns an empty list with both totals 0.
C16_ModelNotLoaded ==
    model = "null" =>
        /\ \A i \in Indices :
              /\ stage[i] \in {"pending", "threw", "returned", "consumed"}
              /\ stage[i] = "threw" =>
                    frame[i].error = "Model not loaded. Call loadModel() first."
              /\ frame[i].decoded = NoSize /\ ~frame[i].hasData
              /\ tensors[i] = 0
              /\ Returned(i) => ret[i] = Null
        /\ results = <<>>
        /\ totalChickens = 0
        /\ summary # <<>> => summary = <<0, 0>>

\* a batch of three paths on an unloaded detector, reported as 0 and 0
C16_Witness ==
    /\ caller = "module" /\ model = "null" /\ Len(imagePaths) = 3
    /\ \A i \in Indices : ret[i] = Null /\ stage[i] = "consumed"
    /\ Occurrences(console, "Error processing image") = 3
    /\ summary = <<0, 0>> /\ pc = "done"

(***************************************************************************)
(* C17 - the score vector and the prediction list                          *)
(***************************************************************************)
\* the label of the entry at 0-based index k
C17_Label(k) ==
    CASE k = 0 -> Classes[1]
      [] k = 1 -> Classes[2]
      [] k = 2 -> "Class 2"
      [] k = 3 -> "Class 3"

\* the model answered path i with an empty score vector
EmptyVector(i) == frame[i].hasData /\ frame[i].predictionData = <<>>

C17_Vector ==
    \A i \in Indices :
        variant \in Teachables =>
            /\ EmptyVector(i) =>
                  /\ stage[i] = "threw" /\ tensors[i] = 0
                  /\ ~IsResult(ret[i])
            /\ stage[i] = "detected" =>
                  /\ frame[i].hasData /\ frame[i].predictionData # <<>>
                  /\ Len(ret[i].predictions) = Len(frame[i].predictionData)
                  /\ \A k \in 1..Len(ret[i].predictions) :
                        /\ ret[i].predictions[k].class = C17_Label(k - 1)
                        /\ ret[i].predictions[k].confidence = frame[i].predictionData[k]

\* C17: in the binary variant an empty score vector makes the selection of
\* the best prediction fail after both tensors were disposed, no result is
\* produced and processImage returns null; n > 0 scores give exactly n
\* predictions, the one at index i labelled with the configured label i or
\* 'Class i'.
C17_ScoreVector ==
    /\ []C17_Vector
    /\ [][\A i \in Indices :
              (EmptyVector(i) /\ stage'[i] # stage[i]) =>
                  (stage'[i] = "returned" /\ ret'[i] = Null /\ tensors'[i] = 0)]_vars

\* the selection has just failed on an empty vector, with nothing allocated
C17_Witness ==
    /\ variant = "teachable" /\ Len(imagePaths) = 1
    /\ EmptyVector(1) /\ stage[1] = "threw" /\ tensors[1] = 0
    /\ frame[1].error = "Reduce of empty array with no initial value"

(***************************************************************************)
(* C14 - the extension filter over a directory                             *)
(***************************************************************************)
\* the spellings of the five extensions that occur in the directories explored
C14_Extensions == {"jpg", "jpeg", "Jpeg", "png", "PNG", "bmp", "gif", "GIF"}

\* the positions of the listing whose entry has one of the extensions
Matching == { k \in 1..Len(dirListing) : dirListing[k].ext \in C14_Extensions }

\* the n-th matching position, counted from 1
NthMatching(n) == CHOOSE p \in Matching : Cardinality({ q \in Matching : q < p }) = n - 1

NoImagesReports == Occurrences(console, "No image files found in the directory.")

\* no matching entry: the batch is never invoked and no image is processed
C14_BatchSkipped ==
    Matching = {} =>
        /\ ~batch /\ imagePaths = <<>> /\ attempted = <<>> /\ summary = <<>>
        /\ Occurrences(console, "Processing images") = 0

\* the batch gets the matching entries, joined to the directory, in listing order
C14_ListingOrder ==
    /\ batch =>
          /\ Matching # {}
          /\ Len(imagePaths) = Cardinality(Matching)
          /\ \A n \in Indices : imagePaths[n] = PathJoin("dir", dirListing[NthMatching(n)])
    /\ Matching # {} => NoImagesReports = 0
    /\ (Finished /\ Matching # {} /\ ~LoadFailed) => batch

====
